---- MODULE Spec2Model ----
(***************************************************************************)
(* Earthstar StorageMemory: the in-memory document index                   *)
(* (src/src/storage/storageMemory.ts) and the query helpers it calls; and  *)
(* the base32 codec and the author identities that                         *)
(* src/src/test/crypto.test.ts exercises.                                  *)
(*                                                                         *)
(* JavaScript strings (paths, author addresses, signatures, contents) are  *)
(* sequences of code units; "<" on strings is the lexicographic order on   *)
(* those sequences.  A JavaScript object is a sequence of entries in       *)
(* insertion order, as Object.keys / Object.values / for..in enumerate     *)
(* them.  An optional field is <<>> when unset and <<v>> when set to v.    *)
(***************************************************************************)
EXTENDS Integers, Sequences, FiniteSets, TLC

VARIABLES _docs, _config, _isClosed, now, ret

vars == <<_docs, _config, _isClosed, now, ret>>

--------------------------------------------------------------------------
(* Bounds of the model.                                                    *)

\* timestamps range over 1..MaxTime
MaxTime == 2
\* the clock reads 1..MaxNow
MaxNow == 2

--------------------------------------------------------------------------
(* Strings.                                                                *)

RECURSIVE StrLess(_, _)
\* JavaScript a < b on strings
StrLess(a, b) ==
    IF b = <<>> THEN FALSE
    ELSE IF a = <<>> THEN TRUE
    ELSE IF Head(a) < Head(b) THEN TRUE
    ELSE IF Head(a) > Head(b) THEN FALSE
    ELSE StrLess(Tail(a), Tail(b))

\* String.prototype.startsWith
StartsWith(s, prefix) ==
    /\ Len(prefix) <= Len(s)
    /\ SubSeq(s, 1, Len(prefix)) = prefix

\* UTF-8 width of one code unit of the Basic Multilingual Plane
Utf8Width(c) == IF c < 128 THEN 1 ELSE IF c < 2048 THEN 2 ELSE 3

RECURSIVE ByteLength(_)
\* Buffer.byteLength(s, 'utf-8')
ByteLength(s) == IF s = <<>> THEN 0 ELSE Utf8Width(Head(s)) + ByteLength(Tail(s))

\* Array.prototype.sort(compareFn): a stable sort; cmp[i, j] is what the
\* comparator returns for s[i] and s[j] (<0, 0 or >0)
StableSort(s, cmp) ==
    LET n == Len(s)
        rank(i) == Cardinality({j \in 1..n :
                        \/ cmp[j, i] < 0
                        \/ (cmp[j, i] = 0 /\ j < i)})
    IN  IF n <= 1 THEN s
        ELSE [k \in 1..n |-> s[CHOOSE i \in 1..n : rank(i) = k - 1]]

\* the default comparator of Array.prototype.sort on strings
StrCompare(a, b) == IF StrLess(a, b) THEN -1 ELSE IF StrLess(b, a) THEN 1 ELSE 0

\* Array.prototype.sort() without a comparator, on an array of strings
SortStrings(s) == StableSort(s, [i, j \in 1..Len(s) |-> StrCompare(s[i], s[j])])

\* Array.prototype.slice(0, n)
SliceTo(s, n) == SubSeq(s, 1, IF n < Len(s) THEN n ELSE Len(s))

--------------------------------------------------------------------------
(* Documents.                                                              *)

\* the two paths and the two author addresses of the model
PathA == <<1, 1>>
PathB == <<2>>
Paths == {PathA, PathB}

Author1 == <<1>>
Author2 == <<2>>
Authors == {Author1, Author2}

Timestamps == 1..MaxTime

\* deleteAfter: <<>> is null, <<t>> is the time t
DeleteAfters == {<<>>, <<1>>}

\* the contents: "", the snowman U+2603 (one code unit, 3 bytes in UTF-8)
\* and "aaaaa" (5 bytes)
EmptyContent == <<>>
SnowmanContent == <<9731>>
FiveLetters == <<97, 97, 97, 97, 97>>
Contents == {EmptyContent, SnowmanContent, FiveLetters}

\* The signature a document carries: made by its author over its other
\* fields, so no two documents of different authors carry the same one.
\* All signatures have the same length; the first unit scrambles their
\* order so that it follows neither the authors nor the timestamps.
Sign(path, author, timestamp, deleteAfter, content) ==
    LET da == IF deleteAfter = <<>> THEN 0 ELSE deleteAfter[1]
    IN  << (author[1] + timestamp + da + Len(content) + path[1]) % 2,
           author[1], timestamp, da, ByteLength(content), path[1] >>

Document(path, author, timestamp, deleteAfter, content) ==
    [ path |-> path, author |-> author, timestamp |-> timestamp,
      deleteAfter |-> deleteAfter, content |-> content,
      signature |-> Sign(path, author, timestamp, deleteAfter, content) ]

\* who writes where: both authors write PathA, Author1 alone writes PathB
Slots == {<<PathA, Author1>>, <<PathA, Author2>>, <<PathB, Author1>>}

\* The documents handed to _upsertDocument: in every slot, the snowman
\* document with any timestamp and deleteAfter, and the plain document
\* (timestamp 1, no deleteAfter) with any content.
AllDocuments ==
    {Document(s[1], s[2], t, d, SnowmanContent) :
        s \in Slots, t \in Timestamps, d \in DeleteAfters}
    \cup
    {Document(s[1], s[2], 1, <<>>, c) : s \in Slots, c \in Contents}

--------------------------------------------------------------------------
(* Queries.                                                                *)

\* the query {} : nothing set
EmptyQuery ==
    [ path |-> <<>>, pathStartsWith |-> <<>>, author |-> <<>>,
      timestampMin |-> <<>>, timestampMax |-> <<>>,
      contentLengthMin |-> <<>>, contentLengthMax |-> <<>>,
      continueAfter |-> <<>>,
      history |-> "undefined", limit |-> <<>>, limitBytes |-> <<>> ]

\* path prefixes asked for: PathA starts with the first and PathB lies after
\* it, PathB starts with the second and PathA lies before it, and no path
\* starts with the third, which lies between them
Prefixes == {<<1>>, <<2>>, <<1, 2>>}

\* the selection predicates of the queries: none, or one of them set
Selectors ==
    {EmptyQuery}
    \cup {[EmptyQuery EXCEPT !.path = <<p>>] : p \in Paths}
    \cup {[EmptyQuery EXCEPT !.pathStartsWith = <<x>>] : x \in Prefixes}
    \cup {[EmptyQuery EXCEPT !.author = <<Author1>>]}
    \cup {[EmptyQuery EXCEPT !.timestampMin = <<MaxTime>>]}
    \cup {[EmptyQuery EXCEPT !.contentLengthMax = <<ByteLength(SnowmanContent)>>]}
    \cup {[EmptyQuery EXCEPT !.continueAfter = <<[path |-> PathA, author |-> Author1]>>]}

\* the selectors that are also asked with a limit or a limitBytes
LimitedSelectors ==
    {s \in Selectors : s.timestampMin = <<>> /\ s.contentLengthMax = <<>>
                       /\ s.continueAfter = <<>> /\ s.path = <<>>
                       /\ s.pathStartsWith # <<<<1, 2>>>>}

Histories == {"latest", "all"}
Limits == {<<>>, <<1>>, <<2>>}
LimitsBytes == {<<>>, <<ByteLength(SnowmanContent)>>}

\* the queries given to documents(): every selector with every history; the
\* limited selectors with every history, limit and limitBytes; the query {};
\* and the queries with a zero limit
Queries ==
    {[s EXCEPT !.history = h] : s \in Selectors, h \in Histories}
    \cup {[s EXCEPT !.history = h, !.limit = l, !.limitBytes = b] :
            s \in LimitedSelectors, h \in Histories, l \in Limits, b \in LimitsBytes}
    \cup {EmptyQuery}
    \cup {[EmptyQuery EXCEPT !.history = h, !.limit = <<0>>] : h \in Histories}
    \cup {[EmptyQuery EXCEPT !.history = h, !.limitBytes = <<0>>] : h \in Histories}

--------------------------------------------------------------------------
(* Query helpers (query.ts).                                               *)

\* cleanUpQuery: fills in the default history and leaves the rest as given
cleanUpQuery(q) ==
    IF q.history = "undefined" THEN [q EXCEPT !.history = "all"] ELSE q

\* queryMatchesDoc: the conjunction of the predicates that are set; it looks
\* at neither history nor limit nor limitBytes
queryMatchesDoc(query, doc) ==
    /\ query.path # <<>> => doc.path = query.path[1]
    /\ query.pathStartsWith # <<>> => StartsWith(doc.path, query.pathStartsWith[1])
    /\ query.author # <<>> => doc.author = query.author[1]
    /\ query.timestampMin # <<>> => doc.timestamp >= query.timestampMin[1]
    /\ query.timestampMax # <<>> => doc.timestamp <= query.timestampMax[1]
    /\ query.contentLengthMin # <<>> =>
            ByteLength(doc.content) >= query.contentLengthMin[1]
    /\ query.contentLengthMax # <<>> =>
            ByteLength(doc.content) <= query.contentLengthMax[1]
    /\ query.continueAfter # <<>> =>
            \/ StrLess(query.continueAfter[1].path, doc.path)
            \/ /\ doc.path = query.continueAfter[1].path
               /\ StrLess(query.continueAfter[1].author, doc.author)

\* documentIsExpired
documentIsExpired(doc, t) ==
    doc.deleteAfter # <<>> /\ t > doc.deleteAfter[1]

\* sortLatestFirst: timestamp descending, then signature descending
sortLatestFirst(a, b) ==
    IF a.timestamp < b.timestamp THEN 1
    ELSE IF a.timestamp > b.timestamp THEN -1
    ELSE IF StrLess(a.signature, b.signature) THEN 1
    ELSE IF StrLess(b.signature, a.signature) THEN -1
    ELSE 0

\* sortPathAscAuthorAsc: path ascending, then author ascending
sortPathAscAuthorAsc(a, b) ==
    IF StrLess(a.path, b.path) THEN -1
    ELSE IF StrLess(b.path, a.path) THEN 1
    ELSE IF StrLess(a.author, b.author) THEN -1
    ELSE IF StrLess(b.author, a.author) THEN 1
    ELSE 0

--------------------------------------------------------------------------
(* The index: this._docs is a sequence of entries [path, slots] in the     *)
(* order the paths were inserted; slots is the sequence of the path's      *)
(* documents, one per author, in the order the authors were inserted.      *)

\* Object.keys(this._docs)
Keys(docs) == [i \in 1..Len(docs) |-> docs[i].path]

\* this._docs[path] !== undefined
HasPath(docs, path) == \E i \in 1..Len(docs) : docs[i].path = path

\* Object.values(this._docs[path])
SlotsOf(docs, path) == docs[CHOOSE i \in 1..Len(docs) : docs[i].path = path].slots

\* every document held, as a set
Held(docs) ==
    UNION {{docs[i].slots[j] : j \in 1..Len(docs[i].slots)} : i \in 1..Len(docs)}

--------------------------------------------------------------------------
(* documents(q): the read.                                                 *)

\* mutant: the paths are sorted for pathStartsWith only, not for limit
needsSortedPathsForPrefixOnly(query) ==
    query.pathStartsWith # <<>>

\* the paths to consider are sorted when pathStartsWith or limit is set
needsSortedPaths(query) ==
    query.pathStartsWith # <<>> \/ query.limit # <<>>

\* pathsToConsider, after the sort
pathsToConsider(docs, query) ==
    LET paths == IF query.path # <<>> THEN <<query.path[1]>> ELSE Keys(docs)
    IN  IF needsSortedPaths(query) THEN SortStrings(paths) ELSE paths

\* mutant: the scan breaks at the first path that does not start with
\* pathStartsWith, also when that path lies before it
prefixStepBreaksEarly(query, path) ==
    IF query.pathStartsWith # <<>> /\ ~StartsWith(path, query.pathStartsWith[1])
    THEN "break"
    ELSE "visit"

\* the pathStartsWith optimization at one path: "continue" when the path
\* does not start with pathStartsWith and lies before it, "break" when it
\* does not start with it and does not lie before it, "visit" otherwise
prefixStep(query, path) ==
    IF query.pathStartsWith # <<>> /\ ~StartsWith(path, query.pathStartsWith[1])
    THEN IF StrLess(path, query.pathStartsWith[1]) THEN "continue" ELSE "break"
    ELSE "visit"

\* mutant: the first document in insertion order is kept, without the sort
latestOfPathUnsorted(docsThisPath) ==
    <<docsThisPath[1]>>

\* history 'latest': sort the path's documents latest first and keep the first
latestOfPath(docsThisPath) ==
    <<StableSort(docsThisPath,
                 [i, j \in 1..Len(docsThisPath) |->
                    sortLatestFirst(docsThisPath[i], docsThisPath[j])])[1]>>

\* mutant: a document is dropped already at now = deleteAfter
notExpiredAtStrict(doc, t) ==
    doc.deleteAfter = <<>> \/ t < doc.deleteAfter[1]

\* the second half of the filter: doc.deleteAfter === null || now <= doc.deleteAfter
notExpiredAt(doc, t) ==
    doc.deleteAfter = <<>> \/ t <= doc.deleteAfter[1]

\* mutant: the filter runs before 'latest' picks, so that an older version
\* stands in for a winner the filter drops
docsOfPathFilterFirst(docs, query, t, path) ==
    LET matching == SelectSeq(SlotsOf(docs, path),
                        LAMBDA doc : queryMatchesDoc(query, doc) /\ notExpiredAt(doc, t))
    IN  IF query.history = "latest" /\ matching # <<>>
        THEN latestOfPath(matching)
        ELSE matching

\* mutant: only the latest document is kept, whatever the history
docsOfPathAlwaysLatest(docs, query, t, path) ==
    SelectSeq(latestOfPath(SlotsOf(docs, path)),
              LAMBDA doc : queryMatchesDoc(query, doc) /\ notExpiredAt(doc, t))

\* the documents one path adds to the results
docsOfPath(docs, query, t, path) ==
    LET docsThisPath == SlotsOf(docs, path)
        kept == IF query.history = "latest"
                THEN latestOfPath(docsThisPath)
                ELSE docsThisPath
    IN  SelectSeq(kept, LAMBDA doc : queryMatchesDoc(query, doc) /\ notExpiredAt(doc, t))

\* "stop when limit is reached"
limitReached(query, results) ==
    query.limit # <<>> /\ Len(results) >= query.limit[1]

RECURSIVE scanPaths(_, _, _, _, _)
\* the loop over pathsToConsider; threw: the ValidationError of an unexpected
\* history value
scanPaths(docs, query, t, paths, results) ==
    IF paths = <<>> THEN [threw |-> FALSE, results |-> results]
    ELSE LET path == Head(paths) IN
         IF prefixStep(query, path) = "continue"
         THEN scanPaths(docs, query, t, Tail(paths), results)
         ELSE IF prefixStep(query, path) = "break"
         THEN [threw |-> FALSE, results |-> results]
         ELSE IF query.history \notin {"latest", "all"}
         THEN [threw |-> TRUE, results |-> results]
         ELSE LET pushed == results \o docsOfPath(docs, query, t, path) IN
              IF limitReached(query, pushed)
              THEN [threw |-> FALSE, results |-> pushed]
              ELSE scanPaths(docs, query, t, Tail(paths), pushed)

\* mutant: the results are left in the order of the scan
sortResultsSkipped(results) == results

\* results.sort(sortPathAscAuthorAsc)
sortResults(results) ==
    StableSort(results,
               [i, j \in 1..Len(results) |-> sortPathAscAuthorAsc(results[i], results[j])])

\* results.slice(0, query.limit) when limit is set
applyLimit(query, results) ==
    IF query.limit # <<>> THEN SliceTo(results, query.limit[1]) ELSE results

\* the byte length the limitBytes loop counts for one document
contentBytes(doc) == ByteLength(doc.content)

\* mutant: an empty document landing on the boundary is not cut
bytesCutHereWithoutEmptyRule(bytes, len, limitBytes) ==
    bytes > limitBytes

\* the test that cuts the results at index ii
bytesCutHere(bytes, len, limitBytes) ==
    bytes > limitBytes \/ (bytes = limitBytes /\ len = 0)

RECURSIVE limitBytesLoop(_, _, _, _)
\* the loop over the results; ii counts from 1, bytes is the sum before ii
limitBytesLoop(results, limitBytes, ii, bytes) ==
    IF ii > Len(results) THEN results
    ELSE LET len == contentBytes(results[ii]) IN
         IF bytesCutHere(bytes + len, len, limitBytes)
         THEN SubSeq(results, 1, ii - 1)
         ELSE limitBytesLoop(results, limitBytes, ii + 1, bytes + len)

\* the limitBytes truncation when limitBytes is set
applyLimitBytes(query, results) ==
    IF query.limitBytes # <<>>
    THEN limitBytesLoop(results, query.limitBytes[1], 1, 0)
    ELSE results

\* what a call returns: threw names the error thrown ("" when none)
Returned(value) == [threw |-> "", value |-> value]
Threw(error) == [threw |-> error, value |-> <<>>]

\* mutant: a limit or limitBytes of 0 is not rejected before the scan
documentsOfWithoutZeroCheck(docs, q, t) ==
    LET query == cleanUpQuery(q) IN
    IF query.path # <<>> /\ ~HasPath(docs, query.path[1]) THEN Returned(<<>>)
    ELSE LET scanned == scanPaths(docs, query, t, pathsToConsider(docs, query), <<>>) IN
         IF scanned.threw THEN Threw("ValidationError")
         ELSE Returned(applyLimitBytes(query,
                        applyLimit(query, sortResults(scanned.results))))

\* documents(q) on an open index at clock reading t
documentsOf(docs, q, t) ==
    LET query == cleanUpQuery(q) IN
    IF query.limit = <<0>> \/ query.limitBytes = <<0>> THEN Returned(<<>>)
    ELSE IF query.path # <<>> /\ ~HasPath(docs, query.path[1]) THEN Returned(<<>>)
    ELSE LET scanned == scanPaths(docs, query, t, pathsToConsider(docs, query), <<>>) IN
         IF scanned.threw THEN Threw("ValidationError")
         ELSE Returned(applyLimitBytes(query,
                        applyLimit(query, sortResults(scanned.results))))

--------------------------------------------------------------------------
(* The mutations of the index.                                             *)

\* mutant: a document replaces the one in its slot only when it is newer
upsertSlotsKeepNewer(slots, doc) ==
    IF \E j \in 1..Len(slots) : slots[j].author = doc.author
    THEN [j \in 1..Len(slots) |->
            IF slots[j].author = doc.author /\ slots[j].timestamp < doc.timestamp
            THEN doc ELSE slots[j]]
    ELSE Append(slots, doc)

\* slots[doc.author] = doc : an author already present keeps its place
upsertSlots(slots, doc) ==
    IF \E j \in 1..Len(slots) : slots[j].author = doc.author
    THEN [j \in 1..Len(slots) |->
            IF slots[j].author = doc.author THEN doc ELSE slots[j]]
    ELSE Append(slots, doc)

\* the body of _upsertDocument: this._docs[doc.path] = slots
upsertDocs(docs, doc) ==
    IF HasPath(docs, doc.path)
    THEN [i \in 1..Len(docs) |->
            IF docs[i].path = doc.path
            THEN [path |-> doc.path, slots |-> upsertSlots(docs[i].slots, doc)]
            ELSE docs[i]]
    ELSE Append(docs, [path |-> doc.path, slots |-> upsertSlots(<<>>, doc)])

\* mutant: a path whose slots are all deleted keeps its empty entry
dropEmptyPathsSkipped(docs) == docs

\* "if slots are empty, remove the entire set of slots"
dropEmptyPaths(docs) ==
    SelectSeq(docs, LAMBDA entry : Len(entry.slots) # 0)

\* mutant: a path is deleted whole as soon as shouldKeep rejects one of its
\* documents
filterDocsDropsWholePath(docs, kept) ==
    SelectSeq(docs, LAMBDA entry :
        \A j \in 1..Len(entry.slots) : entry.slots[j] \in kept)

\* the loops of _filterDocs: delete every document shouldKeep rejects;
\* kept is the set of the documents for which shouldKeep(doc) holds
filterDocs(docs, kept) ==
    dropEmptyPaths([i \in 1..Len(docs) |->
        [path |-> docs[i].path,
         slots |-> SelectSeq(docs[i].slots, LAMBDA doc : doc \in kept)]])

\* the documents forgetDocuments keeps: (doc) => !queryMatchesDoc(query, doc)
forgetKeeps(docs, query) ==
    {doc \in Held(docs) : ~queryMatchesDoc(query, doc)}

\* mutant: a document is discarded already when the clock reads its deleteAfter
discardKeepsBeforeDeadline(docs, t) ==
    {doc \in Held(docs) : doc.deleteAfter = <<>> \/ t < doc.deleteAfter[1]}

\* mutant: every document that carries a deleteAfter is discarded, whatever
\* the clock reads
discardKeepsOnlyPermanent(docs, t) ==
    {doc \in Held(docs) : doc.deleteAfter = <<>>}

\* the documents discardExpiredDocuments keeps: (doc) => !documentIsExpired(doc, now)
discardKeeps(docs, t) ==
    {doc \in Held(docs) : ~documentIsExpired(doc, t)}

--------------------------------------------------------------------------
(* The state machine.  ret records the call that has just returned: its    *)
(* name, its argument (<<>> or <<argument>>), the error it threw ("" when  *)
(* none) and the value it returned.  The caller is single-threaded: it     *)
(* takes the outcome of a call (Return) before it makes the next one.      *)

NoCall == [op |-> "", arg |-> <<>>, threw |-> "", value |-> <<>>]

Call(op, arg, outcome) ==
    [op |-> op, arg |-> arg, threw |-> outcome.threw, value |-> outcome.value]

ConfigKeys == {"k1", "k2"}
ConfigValues == {"v1", "v2"}

Init ==
    /\ _docs = <<>>
    /\ _config = <<>>
    /\ _isClosed = FALSE
    /\ now = 1
    /\ ret = NoCall

\* _assertNotClosed throws on a closed storage
assertNotClosedThrows == _isClosed

\* mutant: the sort that picks the latest document reorders the stored slots
\* of every path instead of a copy of them
documentsSortingTheIndex(q) ==
    /\ ret = NoCall
    /\ ret' = Call("documents", <<q>>,
                   IF assertNotClosedThrows THEN Threw("StorageIsClosedError")
                   ELSE documentsOf(_docs, q, now))
    /\ _docs' = IF assertNotClosedThrows \/ cleanUpQuery(q).history # "latest"
                THEN _docs
                ELSE [i \in 1..Len(_docs) |->
                        [_docs[i] EXCEPT !.slots =
                            StableSort(@, [j, k \in 1..Len(@) |->
                                              sortLatestFirst(@[j], @[k])])]]
    /\ UNCHANGED <<_config, _isClosed, now>>

\* documents(q)
documents(q) ==
    /\ ret = NoCall
    /\ ret' = Call("documents", <<q>>,
                   IF assertNotClosedThrows THEN Threw("StorageIsClosedError")
                   ELSE documentsOf(_docs, q, now))
    /\ UNCHANGED <<_docs, _config, _isClosed, now>>

\* mutant: _upsertDocument without its closed-state check
_upsertDocumentWithoutClosedCheck(doc) ==
    /\ ret = NoCall
    /\ _docs' = upsertDocs(_docs, doc)
    /\ ret' = Call("_upsertDocument", <<doc>>, Returned(<<>>))
    /\ UNCHANGED <<_config, _isClosed, now>>

\* _upsertDocument(doc)
_upsertDocument(doc) ==
    /\ ret = NoCall
    /\ IF assertNotClosedThrows
       THEN /\ ret' = Call("_upsertDocument", <<doc>>, Threw("StorageIsClosedError"))
            /\ UNCHANGED _docs
       ELSE /\ _docs' = upsertDocs(_docs, doc)
            /\ ret' = Call("_upsertDocument", <<doc>>, Returned(<<>>))
    /\ UNCHANGED <<_config, _isClosed, now>>

\* forgetDocuments(q)
forgetDocuments(q) ==
    /\ ret = NoCall
    /\ LET query == cleanUpQuery(q) IN
       IF assertNotClosedThrows
       THEN /\ ret' = Call("forgetDocuments", <<q>>, Threw("StorageIsClosedError"))
            /\ UNCHANGED _docs
       ELSE IF query.limit = <<0>> \/ query.limitBytes = <<0>>
       THEN /\ ret' = Call("forgetDocuments", <<q>>, Returned(<<>>))
            /\ UNCHANGED _docs
       ELSE IF query.history # "all"
       THEN /\ ret' = Call("forgetDocuments", <<q>>, Threw("ValidationError"))
            /\ UNCHANGED _docs
       ELSE /\ _docs' = filterDocs(_docs, forgetKeeps(_docs, query))
            /\ ret' = Call("forgetDocuments", <<q>>, Returned(<<>>))
    /\ UNCHANGED <<_config, _isClosed, now>>

\* discardExpiredDocuments()
discardExpiredDocuments ==
    /\ ret = NoCall
    /\ IF assertNotClosedThrows
       THEN /\ ret' = Call("discardExpiredDocuments", <<>>, Threw("StorageIsClosedError"))
            /\ UNCHANGED _docs
       ELSE /\ _docs' = filterDocs(_docs, discardKeeps(_docs, now))
            /\ ret' = Call("discardExpiredDocuments", <<>>, Returned(<<>>))
    /\ UNCHANGED <<_config, _isClosed, now>>

\* close(): marks the storage closed and runs _close, which empties both maps
close ==
    /\ ret = NoCall
    /\ _isClosed' = TRUE
    /\ _docs' = <<>>
    /\ _config' = <<>>
    /\ ret' = Call("close", <<>>, Returned(<<>>))
    /\ UNCHANGED now

\* setConfig(key, content)
setConfig(key, content) ==
    /\ ret = NoCall
    /\ _config' = [k \in DOMAIN _config \cup {key} |->
                        IF k = key THEN content ELSE _config[k]]
    /\ ret' = Call("setConfig", <<key, content>>, Returned(<<>>))
    /\ UNCHANGED <<_docs, _isClosed, now>>

\* getConfig(key): <<>> is undefined
getConfig(key) ==
    /\ ret = NoCall
    /\ ret' = Call("getConfig", <<key>>,
                   Returned(IF key \in DOMAIN _config THEN <<_config[key]>> ELSE <<>>))
    /\ UNCHANGED <<_docs, _config, _isClosed, now>>

\* deleteConfig(key)
deleteConfig(key) ==
    /\ ret = NoCall
    /\ _config' = [k \in DOMAIN _config \ {key} |-> _config[k]]
    /\ ret' = Call("deleteConfig", <<key>>, Returned(<<>>))
    /\ UNCHANGED <<_docs, _isClosed, now>>

\* deleteAllConfig()
deleteAllConfig ==
    /\ ret = NoCall
    /\ _config' = <<>>
    /\ ret' = Call("deleteAllConfig", <<>>, Returned(<<>>))
    /\ UNCHANGED <<_docs, _isClosed, now>>

\* the clock advances between calls
Tick ==
    /\ ret = NoCall
    /\ now < MaxNow
    /\ now' = now + 1
    /\ UNCHANGED <<_docs, _config, _isClosed, ret>>

\* the caller takes the outcome of the call
Return ==
    /\ ret # NoCall
    /\ ret' = NoCall
    /\ UNCHANGED <<_docs, _config, _isClosed, now>>

\* the queries given to forgetDocuments
ForgetQueries ==
    {[s EXCEPT !.history = "all"] : s \in Selectors}
    \cup {[s EXCEPT !.history = "latest"] : s \in LimitedSelectors}
    \cup {EmptyQuery}
    \cup {[EmptyQuery EXCEPT !.history = h, !.limit = <<0>>] : h \in Histories}
    \cup {[EmptyQuery EXCEPT !.history = h, !.limitBytes = <<0>>] : h \in Histories}

\* The document index: every operation on documents, with every query.
Next ==
    \/ \E q \in Queries : documents(q)
    \/ \E doc \in AllDocuments : _upsertDocument(doc)
    \/ \E q \in ForgetQueries : forgetDocuments(q)
    \/ discardExpiredDocuments
    \/ close
    \/ Tick
    \/ Return

Spec == Init /\ [][Next]_vars

\* the documents and queries of the storage with its config store
StorageDocuments == {doc \in AllDocuments : doc.content = SnowmanContent}
StorageQueries == {[EmptyQuery EXCEPT !.history = h] : h \in Histories}

\* a history value that is neither 'latest' nor 'all'
UnexpectedHistory == "never"

\* the queries with a limit or a limitBytes of 0: every selector with every
\* history, the unexpected one included
ZeroLimitQueries ==
    {[s EXCEPT !.history = h, !.limit = <<0>>] :
        s \in Selectors, h \in Histories \cup {UnexpectedHistory}}
    \cup {[s EXCEPT !.history = h, !.limitBytes = <<0>>] :
            s \in Selectors, h \in Histories \cup {UnexpectedHistory}}

\* the queries of the storage that carry a limit: pathsToConsider is sorted
\* and the results are cut
StorageLimitQueries == {[EmptyQuery EXCEPT !.history = h, !.limit = <<1>>] : h \in Histories}

\* the queries given to forgetDocuments of the storage: those of the index
\* and one that carries a limit that is not 0
StorageForgetQueries ==
    ForgetQueries
    \cup {[EmptyQuery EXCEPT !.history = "all", !.author = <<Author2>>, !.limit = <<1>>]}

\* The whole storage: the operations on documents and the config store.
NextStorage ==
    \/ \E q \in StorageQueries \cup ZeroLimitQueries \cup StorageLimitQueries : documents(q)
    \/ \E doc \in StorageDocuments : _upsertDocument(doc)
    \/ \E q \in StorageForgetQueries : forgetDocuments(q)
    \/ discardExpiredDocuments
    \/ \E key \in ConfigKeys, content \in ConfigValues : setConfig(key, content)
    \/ \E key \in ConfigKeys : getConfig(key)
    \/ \E key \in ConfigKeys : deleteConfig(key)
    \/ deleteAllConfig
    \/ close
    \/ Tick
    \/ Return

SpecStorage == Init /\ [][NextStorage]_vars

--------------------------------------------------------------------------
(* The codec (crypto/encoding.ts): base32 text with the one-character tag  *)
(* 'b'.  Buffers are sequences of bytes, texts sequences of code units.    *)

\* buffers have at most MaxBuffer bytes, texts at most MaxText characters
MaxBuffer == 2
MaxText == 5

\* the alphabet: 'a'..'z' stand for 0..25 and '2'..'7' for 26..31
IsBase32Char(c) == c \in 97..122 \/ c \in 50..55
Base32Value(c) == IF c >= 97 THEN c - 97 ELSE c - 24
Base32Char(v) == IF v < 26 THEN v + 97 ELSE v + 24

\* the bits of n, the most significant first
Bits(n, width) == [i \in 1..width |-> (n \div (2 ^ (width - i))) % 2]

RECURSIVE ConcatBits(_, _)
\* the bits of a sequence of numbers, width bits for each
ConcatBits(s, width) ==
    IF s = <<>> THEN <<>> ELSE Bits(Head(s), width) \o ConcatBits(Tail(s), width)

RECURSIVE NumberOf(_)
\* the number a sequence of bits spells
NumberOf(bits) ==
    IF bits = <<>> THEN 0
    ELSE 2 * NumberOf(SubSeq(bits, 1, Len(bits) - 1)) + bits[Len(bits)]

\* the k-th group of width bits, as a number
Group(bits, k, width) == NumberOf(SubSeq(bits, (k - 1) * width + 1, k * width))

\* encodeBufferToBase32: the tag, then one character for every 5 bits, the
\* last group filled up with zero bits; no padding characters
encodeBufferToBase32(buf) ==
    LET bits == ConcatBits(buf, 8)
        padded == bits \o [i \in 1..((5 - (Len(bits) % 5)) % 5) |-> 0]
    IN  <<98>> \o [k \in 1..(Len(padded) \div 5) |-> Base32Char(Group(padded, k, 5))]

\* mutant: the bits left over after the last whole byte are dropped unchecked
decodeBase32ToBufferDroppingBits(str) ==
    IF str = <<>> \/ Head(str) # 98 THEN Threw("DecodeError")
    ELSE IF \E i \in 2..Len(str) : ~IsBase32Char(str[i]) THEN Threw("DecodeError")
    ELSE LET bits == ConcatBits([i \in 1..(Len(str) - 1) |-> Base32Value(str[i + 1])], 5)
         IN  Returned([k \in 1..(Len(bits) \div 8) |-> Group(bits, k, 8)])

\* decodeBase32ToBuffer: fails on the empty text, on a text without the tag,
\* on a character outside the alphabet, on a trailing character that
\* completes no byte and on left-over bits that are not zero
decodeBase32ToBuffer(str) ==
    IF str = <<>> \/ Head(str) # 98 THEN Threw("DecodeError")
    ELSE IF \E i \in 2..Len(str) : ~IsBase32Char(str[i]) THEN Threw("DecodeError")
    ELSE LET bits == ConcatBits([i \in 1..(Len(str) - 1) |-> Base32Value(str[i + 1])], 5)
             n == Len(bits) \div 8
             rest == SubSeq(bits, 8 * n + 1, Len(bits))
         IN  IF Len(rest) >= 5 \/ NumberOf(rest) # 0 THEN Threw("DecodeError")
             ELSE Returned([k \in 1..n |-> Group(bits, k, 8)])

--------------------------------------------------------------------------
(* The identities (crypto/crypto.ts).  A key is KeyBytes bytes long; the   *)
(* signature scheme is an ideal one: the signature of an input names the   *)
(* public key that matches the signing secret and the digest of the input. *)

\* shortnames have at most MaxShortname characters
MaxShortname == 5

KeyBytes == 1

IsLowercase(c) == c \in 97..122
IsDigit(c) == c \in 48..57

\* mutant: a shortname may start with a digit
authorShortnameIsValidFromDigit(shortname) ==
    /\ Len(shortname) = 4
    /\ \A i \in 1..Len(shortname) : IsLowercase(shortname[i]) \/ IsDigit(shortname[i])

\* the shortname of an author: 4 characters, lowercase letters or digits,
\* the first not a digit ('ok99' is one, '1234' is not)
authorShortnameIsValid(shortname) ==
    /\ Len(shortname) = 4
    /\ \A i \in 1..Len(shortname) : IsLowercase(shortname[i]) \/ IsDigit(shortname[i])
    /\ ~IsDigit(shortname[1])

\* the public key that matches a secret key
pubkeyOfSecret(secret) == [i \in 1..Len(secret) |-> 255 - secret[i]]

\* encodeAuthorKeypair: address = '@' + shortname + '.' + encoded pubkey
encodeAuthorKeypair(shortname, pubkey, secret) ==
    [ address |-> <<64>> \o shortname \o <<46>> \o encodeBufferToBase32(pubkey),
      secret |-> encodeBufferToBase32(secret) ]

\* generateAuthorKeypair with the fresh secret key drawn
generateAuthorKeypairOf(shortname, secret) ==
    IF ~authorShortnameIsValid(shortname) THEN Threw("ValidationError")
    ELSE Returned(<<encodeAuthorKeypair(shortname, pubkeyOfSecret(secret), secret)>>)

\* the public key an address names, or the error of a malformed address
decodeAuthorAddress(address) ==
    IF Len(address) < 6 \/ address[1] # 64 \/ address[6] # 46
    THEN Threw("ValidationError")
    ELSE IF ~authorShortnameIsValid(SubSeq(address, 2, 5)) THEN Threw("ValidationError")
    ELSE LET pubkey == decodeBase32ToBuffer(SubSeq(address, 7, Len(address))) IN
         IF pubkey.threw # "" \/ Len(pubkey.value) # KeyBytes
         THEN Threw("ValidationError")
         ELSE pubkey

\* the secret key of a keypair, or the error of a malformed keypair
decodeAuthorSecret(keypair) ==
    LET secret == decodeBase32ToBuffer(keypair.secret) IN
    IF decodeAuthorAddress(keypair.address).threw # "" THEN Threw("ValidationError")
    ELSE IF secret.threw # "" \/ Len(secret.value) # KeyBytes THEN Threw("ValidationError")
    ELSE secret

RECURSIVE Sum(_)
Sum(s) == IF s = <<>> THEN 0 ELSE Head(s) + Sum(Tail(s))

\* the digest of an input, one byte
Digest(input) == Sum(input) % 256

\* the signature a secret key makes over an input
signatureBytes(pubkey, input) == pubkey \o <<Digest(input)>>

\* sign(keypair, input): the encoded signature, or the error of a malformed
\* keypair
signOf(keypair, input) ==
    LET secret == decodeAuthorSecret(keypair) IN
    IF secret.threw # "" THEN secret
    ELSE Returned(encodeBufferToBase32(
            signatureBytes(pubkeyOfSecret(secret.value), input)))

\* mutant: the error of an undecodable signature is passed on
verifyOfPassingDecodeErrors(address, sig, input) ==
    LET pubkey == decodeAuthorAddress(address)
        decoded == decodeBase32ToBuffer(sig)
    IN  IF pubkey.threw # "" THEN Returned(<<FALSE>>)
        ELSE IF decoded.threw # "" THEN decoded
        ELSE Returned(<<decoded.value = signatureBytes(pubkey.value, input)>>)

\* verify(address, sig, input): false for a malformed address and for an
\* undecodable signature
verifyOf(address, sig, input) ==
    LET pubkey == decodeAuthorAddress(address)
        decoded == decodeBase32ToBuffer(sig)
    IN  IF pubkey.threw # "" THEN Returned(<<FALSE>>)
        ELSE IF decoded.threw # "" THEN Returned(<<FALSE>>)
        ELSE Returned(<<decoded.value = signatureBytes(pubkey.value, input)>>)

--------------------------------------------------------------------------
(* The calls of the codec and of the identities: pure functions, whose     *)
(* outcome the caller takes as that of any other call.                     *)

\* all sequences over S of at most n elements
SeqsUpTo(S, n) == UNION {[1..k -> S] : k \in 0..n}

\* the bytes of the buffers, and the buffers given to encode
Bytes == {0, 1, 8, 31, 128, 255}
Buffers == SeqsUpTo(Bytes, MaxBuffer)

\* the characters of the texts: 'b', 'a', 'q', '7', 'A', '1', the space and
\* '='; and the texts given to decode
TextChars == {98, 97, 113, 55, 65, 49, 32, 61}
Texts == SeqsUpTo(TextChars, MaxText)

\* the characters of the shortnames: 'a', 'z', 'T', '9' and '-'
ShortnameChars == {97, 122, 84, 57, 45}
Shortnames == SeqsUpTo(ShortnameChars, MaxShortname)

\* the secret keys generateAuthorKeypair draws from
Secrets == {<<1>>, <<2>>}

\* "test" and "ok99"
KnownShortnames == {<<116, 101, 115, 116>>, <<111, 107, 57, 57>>}

\* the keypairs generateAuthorKeypair can return for the known shortnames
Keypairs ==
    {encodeAuthorKeypair(n, pubkeyOfSecret(k), k) : n \in KnownShortnames, k \in Secrets}

\* the keypairs given to sign: the generated ones, and one whose secret is
\* the text 'x'
SigningKeypairs ==
    Keypairs \cup {[kp EXCEPT !.secret = <<120>>] : kp \in Keypairs}

\* the inputs signed: 'abc', 'aaa' and the bytes of the snowman
Inputs == {<<97, 98, 99>>, <<97, 97, 97>>, <<226, 152, 131>>}

\* the addresses given to verify: those of the keypairs, '@bad.address',
\* the empty text, and those of the keypairs cut off after the tag and
\* with the character '1' added
Addresses ==
    {kp.address : kp \in Keypairs}
    \cup {<<64, 98, 97, 100, 46, 97, 100, 100, 114, 101, 115, 115>>, <<>>}
    \cup {SubSeq(kp.address, 1, 7) : kp \in Keypairs}
    \cup {kp.address \o <<49>> : kp \in Keypairs}

\* the signatures given to verify: those the keypairs make over the inputs,
\* 'otherSig', the tag alone, and the empty text
Signatures ==
    {signOf(kp, input).value : kp \in Keypairs, input \in Inputs}
    \cup {<<111, 116, 104, 101, 114, 83, 105, 103>>, <<98>>, <<>>}

\* encodeBufferToBase32(buf), for every buffer
encode ==
    /\ ret = NoCall
    /\ \E buf \in Buffers :
          ret' = Call("encodeBufferToBase32", <<buf>>,
                      Returned(encodeBufferToBase32(buf)))
    /\ UNCHANGED <<_docs, _config, _isClosed, now>>

\* decodeBase32ToBuffer(str), for every text
decode ==
    /\ ret = NoCall
    /\ \E str \in Texts :
          ret' = Call("decodeBase32ToBuffer", <<str>>, decodeBase32ToBuffer(str))
    /\ UNCHANGED <<_docs, _config, _isClosed, now>>

\* generateAuthorKeypair(shortname), for every shortname: the secret key is
\* drawn afresh
generateAuthorKeypair ==
    /\ ret = NoCall
    /\ \E shortname \in Shortnames \cup KnownShortnames, secret \in Secrets :
          ret' = Call("generateAuthorKeypair", <<shortname>>,
                      generateAuthorKeypairOf(shortname, secret))
    /\ UNCHANGED <<_docs, _config, _isClosed, now>>

\* sign(keypair, input), for every keypair and input
sign ==
    /\ ret = NoCall
    /\ \E keypair \in SigningKeypairs, input \in Inputs :
          ret' = Call("sign", <<keypair, input>>, signOf(keypair, input))
    /\ UNCHANGED <<_docs, _config, _isClosed, now>>

\* verify(address, sig, input), for every address, signature and input
verify ==
    /\ ret = NoCall
    /\ \E address \in Addresses, sig \in Signatures, input \in Inputs :
          ret' = Call("verify", <<address, sig, input>>,
                      verifyOf(address, sig, input))
    /\ UNCHANGED <<_docs, _config, _isClosed, now>>

\* The codec and the identities.
NextCrypto ==
    \/ encode
    \/ decode
    \/ generateAuthorKeypair
    \/ sign
    \/ verify
    \/ Return

SpecCrypto == Init /\ [][NextCrypto]_vars

--------------------------------------------------------------------------
(* What the claims speak of.                                               *)

\* documents(q) has just returned a value
DocumentsReturned == ret.op = "documents" /\ ret.threw = ""

\* the query of the call, as given and as cleaned up
GivenQuery == ret.arg[1]
CleanQuery == cleanUpQuery(ret.arg[1])

\* the documents a sequence holds
Range(s) == {s[i] : i \in 1..Len(s)}

\* the query without its limit, and without its limitBytes
WithoutLimit(q) == [q EXCEPT !.limit = <<>>]
WithoutLimitBytes(q) == [q EXCEPT !.limitBytes = <<>>]

\* the query sets neither limit nor limitBytes
Unlimited(q) == q.limit = <<>> /\ q.limitBytes = <<>>

\* the documents stored at a path
StoredAt(path) == {doc \in Held(_docs) : doc.path = path}

\* a comes before b latest first: the later timestamp, then the greater signature
RanksBefore(a, b) ==
    \/ a.timestamp > b.timestamp
    \/ (a.timestamp = b.timestamp /\ StrLess(b.signature, a.signature))

\* doc is ranked first by latestFirst among all documents stored at its path
RankedFirst(doc) ==
    /\ doc \in Held(_docs)
    /\ \A other \in StoredAt(doc.path) \ {doc} : RanksBefore(doc, other)

\* expired at the clock reading t: deleteAfter is set and t is past it
Expired(doc, t) == \E d \in 1..MaxNow : doc.deleteAfter = <<d>> /\ t > d

\* a comes before b by path, then by author
ComesBefore(a, b) ==
    \/ StrLess(a.path, b.path)
    \/ (a.path = b.path /\ StrLess(a.author, b.author))

\* the sum of the UTF-8 byte lengths of the contents of the first n documents
RECURSIVE BytesOfFirst(_, _)
BytesOfFirst(s, n) ==
    IF n = 0 THEN 0 ELSE BytesOfFirst(s, n - 1) + ByteLength(s[n].content)

--------------------------------------------------------------------------
\* C1: with history 'latest' and neither limit nor limitBytes, the result
\* holds, for every path of the index, the document ranked first by
\* latestFirst among all documents of that path if and only if that document
\* matches the query and is not expired; it holds no other document of the
\* path, and so at most one document for each path.
LatestReturnsTheWinnerOrNothing ==
    (DocumentsReturned /\ CleanQuery.history = "latest" /\ Unlimited(CleanQuery)) =>
        /\ \A doc \in Held(_docs) :
              doc \in Range(ret.value) <=>
                  /\ RankedFirst(doc)
                  /\ queryMatchesDoc(CleanQuery, doc)
                  /\ ~Expired(doc, now)
        /\ Range(ret.value) \subseteq Held(_docs)
        /\ \A i, j \in 1..Len(ret.value) :
              ret.value[i].path = ret.value[j].path => i = j

\* C1 witness: a path holds two documents, the one ranked first does not
\* match the query or is expired while the older one matches and is not
\* expired, and a 'latest' read has returned nothing for that path.
LatestWinnerFilteredOut ==
    /\ DocumentsReturned /\ CleanQuery.history = "latest" /\ Unlimited(CleanQuery)
    /\ \E w, o \in StoredAt(PathA) :
          /\ w # o /\ RankedFirst(w)
          /\ ~queryMatchesDoc(CleanQuery, w) \/ Expired(w, now)
          /\ queryMatchesDoc(CleanQuery, o) /\ ~Expired(o, now)
          /\ \A doc \in Range(ret.value) : doc.path # PathA

\* C2: with history 'all' and neither limit nor limitBytes, the result is
\* exactly the stored documents that match the query and are not expired,
\* each once; with query.path set to a path the index does not hold the
\* result is empty, and otherwise only documents of that path are returned.
AllReturnsEveryMatch ==
    (DocumentsReturned /\ CleanQuery.history = "all" /\ Unlimited(CleanQuery)) =>
        /\ Range(ret.value) =
              {doc \in Held(_docs) :
                  queryMatchesDoc(CleanQuery, doc) /\ ~Expired(doc, now)}
        /\ Len(ret.value) = Cardinality(Range(ret.value))
        /\ (CleanQuery.path # <<>>) =>
              /\ \A doc \in Range(ret.value) : doc.path = CleanQuery.path[1]
              /\ StoredAt(CleanQuery.path[1]) = {} => ret.value = <<>>

\* C2 witness: an 'all' read has returned both authors' versions of a path
\* while the index holds a further document that the query does not match.
AllReturnedBothVersions ==
    /\ DocumentsReturned /\ CleanQuery.history = "all" /\ Unlimited(CleanQuery)
    /\ Len(ret.value) = 2
    /\ ret.value[1].path = ret.value[2].path
    /\ Cardinality(Held(_docs)) = 3

\* every path has one entry and every author one slot in it
OneDocPerSlot ==
    /\ \A i, j \in 1..Len(_docs) : _docs[i].path = _docs[j].path => i = j
    /\ \A i \in 1..Len(_docs) : \A j, k \in 1..Len(_docs[i].slots) :
          /\ _docs[i].slots[j].path = _docs[i].path
          /\ _docs[i].slots[j].author = _docs[i].slots[k].author => j = k

\* a call of _upsertDocument(doc) on an open index makes doc the document of
\* its slot, whatever the slot held, and changes no other slot and no config
UpsertStep ==
    (ret = NoCall /\ ret'.op = "_upsertDocument" /\ ret'.threw = "") =>
        LET doc == ret'.arg[1] IN
        /\ Held(_docs') =
              {d \in Held(_docs) : d.path # doc.path \/ d.author # doc.author}
              \cup {doc}
        /\ _config' = _config

\* C3: _upsertDocument(doc) on an open index makes doc the value of the slot
\* (doc.path, doc.author), overwriting what the slot held without comparing
\* anything, and leaves every other slot and the config map unchanged; so
\* the index always holds at most one document for each (path, author).
UpsertOverwritesItsSlotOnly == []OneDocPerSlot /\ [][UpsertStep]_vars

\* C3 witness: an upsert has returned on an index that holds documents in
\* other slots, a newer document of another author at the same path among
\* them, while the config map holds a value.
UpsertedBesideOthers ==
    /\ ret.op = "_upsertDocument" /\ ret.threw = ""
    /\ DOMAIN _config # {}
    /\ Cardinality(Held(_docs)) = 3
    /\ \E other \in StoredAt(ret.arg[1].path) :
          other.author # ret.arg[1].author /\ other.timestamp > ret.arg[1].timestamp

\* the index that holds the documents of docs with the paths, and the
\* authors of each path, inserted in ascending order: every index that
\* holds the same documents has the same one
InsertedInOrder(docs) ==
    LET byAuthor(slots) ==
            StableSort(slots, [i, j \in 1..Len(slots) |->
                                  StrCompare(slots[i].author, slots[j].author)])
    IN  StableSort([i \in 1..Len(docs) |->
                        [path |-> docs[i].path, slots |-> byAuthor(docs[i].slots)]],
                   [i, j \in 1..Len(docs) |-> StrCompare(docs[i].path, docs[j].path)])

\* C4: every index that holds the same documents, inserted in whatever
\* order, answers the query as this one did at the same clock reading: the
\* answer is that of the index with the same documents inserted in ascending
\* order.  So with equal timestamps at a path 'latest' picks the same
\* document in all of them.
SameDocumentsSameAnswer ==
    DocumentsReturned =>
        LET inOrder == InsertedInOrder(_docs)
        IN  inOrder # _docs => documentsOf(inOrder, GivenQuery, now) = Returned(ret.value)

\* C4 witness: a path holds two documents with equal timestamps, and a
\* 'latest' read has returned the one with the greater signature, which was
\* inserted after the other.
LatestTieDecidedBySignature ==
    /\ DocumentsReturned /\ CleanQuery.history = "latest"
    /\ HasPath(_docs, PathA)
    /\ Len(SlotsOf(_docs, PathA)) = 2
    /\ LET first == SlotsOf(_docs, PathA)[1]
           second == SlotsOf(_docs, PathA)[2]
       IN  /\ first.timestamp = second.timestamp
           /\ StrLess(first.signature, second.signature)
           /\ second \in Range(ret.value)
           /\ InsertedInOrder(_docs) # _docs

\* C5: with limit n > 0 the result is the first n documents of the result
\* of the same query without the limit, and never more than n documents.
LimitIsAPrefixOfTheUnlimitedResult ==
    (DocumentsReturned /\ CleanQuery.limit # <<>> /\ CleanQuery.limit # <<0>>) =>
        /\ ret.value =
              SliceTo(documentsOf(_docs, WithoutLimit(GivenQuery), now).value,
                      CleanQuery.limit[1])
        /\ Len(ret.value) <= CleanQuery.limit[1]

\* C5 witness: PathB was inserted before PathA, every document matches, and
\* a read with limit 2 has returned the two documents of PathA, the scan
\* having stopped before PathB, where the unlimited result has three.
LimitStoppedTheScan ==
    /\ DocumentsReturned /\ GivenQuery.limit = <<2>>
    /\ GivenQuery.pathStartsWith = <<>> /\ GivenQuery.limitBytes = <<>>
    /\ Keys(_docs) = <<PathB, PathA>>
    /\ Len(ret.value) = 2
    /\ ret.value[1].path = PathA /\ ret.value[2].path = PathA
    /\ Len(documentsOf(_docs, WithoutLimit(GivenQuery), now).value) = 3

RECURSIVE VisitAll(_, _, _, _)
\* the documents of all the given paths, no path skipped and no early stop
VisitAll(docs, query, t, paths) ==
    IF paths = <<>> THEN <<>>
    ELSE docsOfPath(docs, query, t, Head(paths)) \o VisitAll(docs, query, t, Tail(paths))

\* the read without the optimizations of the scan: every path is visited
Unoptimized(docs, q, t) ==
    LET query == cleanUpQuery(q) IN
    applyLimitBytes(query, applyLimit(query,
        sortResults(VisitAll(docs, query, t, Keys(docs)))))

\* C6: with pathStartsWith = p the result is what the scan of all paths
\* returns, and every document returned has a path that starts with p.
PrefixScanDropsNothing ==
    (DocumentsReturned /\ CleanQuery.pathStartsWith # <<>>) =>
        /\ ret.value = Unoptimized(_docs, GivenQuery, now)
        /\ \A doc \in Range(ret.value) :
              StartsWith(doc.path, CleanQuery.pathStartsWith[1])

\* C6 witness: the index holds PathA, which lies before the prefix, and
\* PathB, which starts with it, and the read has returned PathB's document.
PrefixScanSkippedAhead ==
    /\ DocumentsReturned /\ GivenQuery.pathStartsWith = <<PathB>>
    /\ HasPath(_docs, PathA) /\ HasPath(_docs, PathB)
    /\ Len(ret.value) = 1 /\ ret.value[1].path = PathB

\* C7: the result is sorted by path ascending and, within a path, by author
\* ascending, for every query.
ResultIsSortedByPathThenAuthor ==
    DocumentsReturned =>
        \A i, j \in 1..Len(ret.value) :
            i < j => ComesBefore(ret.value[i], ret.value[j])

\* C7 witness: PathB was inserted before PathA and Author2 before Author1,
\* and a read that sorts no paths has returned all three documents.
SortedAgainstInsertionOrder ==
    /\ DocumentsReturned /\ ~needsSortedPaths(CleanQuery)
    /\ Keys(_docs) = <<PathB, PathA>>
    /\ SlotsOf(_docs, PathA)[1].author = Author2
    /\ Len(ret.value) = 3

\* the least number of a non-empty set of numbers
Least(S) == CHOOSE x \in S : \A y \in S : x <= y

\* C8: with limitBytes = B > 0 the result is the sorted, limit-truncated
\* result cut before the first document at which the running sum of content
\* bytes exceeds B, or equals B while that document is empty; the contents
\* returned never total more than B bytes.
LimitBytesCutsAtTheBoundary ==
    (DocumentsReturned /\ CleanQuery.limitBytes # <<>> /\ CleanQuery.limitBytes # <<0>>) =>
        LET B == CleanQuery.limitBytes[1]
            full == documentsOf(_docs, WithoutLimitBytes(GivenQuery), now).value
            cuts == {i \in 1..Len(full) :
                        \/ BytesOfFirst(full, i) > B
                        \/ /\ BytesOfFirst(full, i) = B
                           /\ ByteLength(full[i].content) = 0}
        IN  /\ ret.value = IF cuts = {} THEN full
                           ELSE SubSeq(full, 1, Least(cuts) - 1)
            /\ BytesOfFirst(ret.value, Len(ret.value)) <= B

\* C8 witness: the sorted result has contents of 3, 0 and 5 bytes, and the
\* read with limitBytes 3 has returned only the first document.
LimitBytesThreeZeroFive ==
    /\ DocumentsReturned /\ GivenQuery.limitBytes = <<3>> /\ GivenQuery.limit = <<>>
    /\ LET full == documentsOf(_docs, WithoutLimitBytes(GivenQuery), now).value
       IN  /\ Len(full) = 3
           /\ full[1].content = SnowmanContent
           /\ full[2].content = EmptyContent
           /\ full[3].content = FiveLetters
           /\ ret.value = <<full[1]>>

\* C9: no document returned is expired at the clock reading of the call;
\* and without limit and limitBytes, a document that is not expired is
\* returned whenever the query matches it and, with history 'latest', it is
\* the one ranked first at its path.
ExpiredNeverReturnedOthersNeverDropped ==
    DocumentsReturned =>
        /\ \A doc \in Range(ret.value) :
              doc.deleteAfter = <<>> \/ now <= doc.deleteAfter[1]
        /\ Unlimited(CleanQuery) =>
              \A doc \in Held(_docs) :
                  ( /\ doc.deleteAfter = <<>> \/ now <= doc.deleteAfter[1]
                    /\ queryMatchesDoc(CleanQuery, doc)
                    /\ CleanQuery.history = "latest" => RankedFirst(doc) )
                  => doc \in Range(ret.value)

\* C9 witness: the index still holds a document whose deleteAfter has
\* passed, the query matches it, and an 'all' read has returned the other
\* document of the path without it.
ExpiredDocumentLeftOut ==
    /\ DocumentsReturned /\ CleanQuery.history = "all"
    /\ \E doc \in Held(_docs) :
          /\ doc.deleteAfter # <<>> /\ now > doc.deleteAfter[1]
          /\ queryMatchesDoc(CleanQuery, doc)
          /\ doc \notin Range(ret.value)
    /\ Len(ret.value) = 1

\* a call of forgetDocuments on an open index with a history other than
\* 'all' throws a ValidationError and leaves the documents as they were
ForgetOtherHistoryStep ==
    ( /\ ret = NoCall /\ ret'.op = "forgetDocuments" /\ ~_isClosed
      /\ cleanUpQuery(ret'.arg[1]).history # "all" )
    => (ret'.threw = "ValidationError" /\ _docs' = _docs)

\* C10: forgetDocuments called on an open index with a history other than
\* 'all' throws a ValidationError and deletes nothing, whatever else the
\* query carries, a limit or a limitBytes of 0 included.
ForgetWithOtherHistoryThrows == [][ForgetOtherHistoryStep]_vars

--------------------------------------------------------------------------
\* the operations on documents, those that modify them, and those on config
DocumentOperations ==
    {"documents", "_upsertDocument", "forgetDocuments", "discardExpiredDocuments"}
DocumentMutations == {"_upsertDocument", "forgetDocuments", "discardExpiredDocuments"}
ConfigOperations == {"setConfig", "getConfig", "deleteConfig", "deleteAllConfig"}

\* the step is a call of op on an open index
CallsOnOpen(op) == ret = NoCall /\ ret'.op = op /\ ~_isClosed

\* the cleaned-up query of the call the step makes
QueryOfStep == cleanUpQuery(ret'.arg[1])

\* the query carries a limit or a limitBytes of 0
ZeroLimit(q) == q.limit = <<0>> \/ q.limitBytes = <<0>>

\* the step deletes exactly the stored documents the query matches
ForgetsEveryMatch ==
    /\ Held(_docs') = {doc \in Held(_docs) : ~queryMatchesDoc(QueryOfStep, doc)}
    /\ _config' = _config

\* a call of forgetDocuments with history 'all' on an open index deletes
\* exactly the matching documents
ForgetAllStep ==
    (CallsOnOpen("forgetDocuments") /\ QueryOfStep.history = "all")
        => ForgetsEveryMatch

\* the same for a query whose limit and limitBytes are not 0; with one of
\* them 0 the call deletes nothing
ForgetAllUnlessZeroLimitStep ==
    (CallsOnOpen("forgetDocuments") /\ QueryOfStep.history = "all") =>
        /\ ret'.threw = ""
        /\ IF ZeroLimit(QueryOfStep)
           THEN _docs' = _docs /\ _config' = _config
           ELSE ForgetsEveryMatch

\* C11 as stated: forgetDocuments(query) with history 'all' on an open index
\* removes every stored document the query matches, expired or not, and
\* nothing else, and leaves the config map unchanged.
ForgetRemovesEveryMatch == [][ForgetAllStep]_vars

\* C11 as amended: forgetDocuments(query) with history 'all' and neither
\* limit nor limitBytes equal to 0, on an open index, removes every stored
\* document the query matches, expired or not, and nothing else, and leaves
\* the config map unchanged; with limit 0 or limitBytes 0 it returns without
\* removing anything.
ForgetRemovesEveryMatchUnlessZeroLimit ==
    []OneDocPerSlot /\ [][ForgetAllUnlessZeroLimitStep]_vars

\* C11 witness: forgetDocuments has returned for Author1's documents, past
\* their deleteAfter or not, on an index that still holds Author2's document
\* at the path both write, while the config map holds a value.
ForgotOneAuthorOnly ==
    /\ ret.op = "forgetDocuments" /\ ret.threw = ""
    /\ CleanQuery.author = <<Author1>> /\ CleanQuery.history = "all"
    /\ ~ZeroLimit(CleanQuery)
    /\ now = MaxNow
    /\ \E doc \in StoredAt(PathA) : doc.author = Author2 /\ doc.deleteAfter # <<>>
    /\ DOMAIN _config # {}

\* a call of discardExpiredDocuments on an open index deletes exactly the
\* documents whose deleteAfter is set and lies before the clock reading
DiscardStep ==
    CallsOnOpen("discardExpiredDocuments") =>
        /\ Held(_docs') =
              {doc \in Held(_docs) : doc.deleteAfter = <<>> \/ now <= doc.deleteAfter[1]}
        /\ _config' = _config
        /\ ret'.threw = ""

\* C12: discardExpiredDocuments on an open index removes exactly the
\* documents with deleteAfter set and now > deleteAfter; every document with
\* deleteAfter null or now <= deleteAfter remains in its slot unchanged, and
\* the config map is unchanged.
DiscardRemovesExactlyTheExpired == []OneDocPerSlot /\ [][DiscardStep]_vars

\* C12 witness: discardExpiredDocuments has returned at a clock reading equal
\* to the deleteAfter of a document, which is still held beside a document
\* without deleteAfter, while the config map holds a value.
DiscardKeptTheDocumentAtItsDeadline ==
    /\ ret.op = "discardExpiredDocuments" /\ ret.threw = ""
    /\ \E doc \in Held(_docs) : doc.deleteAfter = <<now>>
    /\ \E doc \in Held(_docs) : doc.deleteAfter = <<>>
    /\ DOMAIN _config # {}

\* once closed the index stays closed and empty, and a call of an operation
\* on documents throws StorageIsClosedError and changes nothing
ClosedStep ==
    _isClosed =>
        /\ _isClosed'
        /\ _docs' = _docs
        /\ (ret = NoCall /\ ret'.op \in DocumentOperations) =>
              /\ ret'.threw = "StorageIsClosedError"
              /\ ret'.value = <<>>
              /\ _config' = _config

\* C13: closing is terminal: after close, every call of documents,
\* _upsertDocument, forgetDocuments and discardExpiredDocuments fails at its
\* closed-state check without reading or modifying anything, in every
\* interleaving; the document map is empty after close and stays empty.
ClosingIsTerminal == [](_isClosed => _docs = <<>>) /\ [][ClosedStep]_vars

\* C13 witness: _upsertDocument has thrown StorageIsClosedError on the closed
\* index, which holds no document.
UpsertFailedOnClosedIndex ==
    /\ _isClosed
    /\ ret.op = "_upsertDocument" /\ ret.threw = "StorageIsClosedError"
    /\ _docs = <<>>

\* C14: documents(query) on an open index returns the empty sequence whenever
\* query.limit is 0 or query.limitBytes is 0, whatever the index holds and
\* whatever the other fields of the query are.
ZeroLimitReturnsNothing ==
    (ret.op = "documents" /\ ret.threw # "StorageIsClosedError" /\ ZeroLimit(CleanQuery))
        => (ret.threw = "" /\ ret.value = <<>>)

\* C14 witness: the index holds three documents, and documents() has returned
\* the empty sequence for a query with limit 0 whose history is neither
\* 'latest' nor 'all'.
ZeroLimitOnAFullIndex ==
    /\ ret.op = "documents" /\ ret.threw = "" /\ ret.value = <<>>
    /\ GivenQuery.limit = <<0>> /\ GivenQuery.history = UnexpectedHistory
    /\ Cardinality(Held(_docs)) = 3

\* the config map with key set to content, and without key
ConfigWith(key, content) ==
    [k \in DOMAIN _config \cup {key} |-> IF k = key THEN content ELSE _config[k]]
ConfigWithout(key) == [k \in DOMAIN _config \ {key} |-> _config[k]]

\* The config map is the record of the most recent setConfig of every key
\* that no deleteConfig of the key and no deleteAllConfig has followed:
\* setConfig, deleteConfig and deleteAllConfig change it so and change no
\* document, getConfig returns what it holds, and no other step changes it.
ConfigStep ==
    ret = NoCall =>
        /\ ret'.op \in ConfigOperations =>
              _docs' = _docs /\ _isClosed' = _isClosed /\ now' = now
        /\ ret'.op = "setConfig" => _config' = ConfigWith(ret'.arg[1], ret'.arg[2])
        /\ ret'.op = "deleteConfig" => _config' = ConfigWithout(ret'.arg[1])
        /\ ret'.op = "deleteAllConfig" => _config' = <<>>
        /\ ret'.op = "getConfig" =>
              ret'.value = IF ret'.arg[1] \in DOMAIN _config
                           THEN <<_config[ret'.arg[1]]>> ELSE <<>>
        /\ ret'.op \notin {"setConfig", "deleteConfig", "deleteAllConfig"} =>
              _config' = _config

\* C15: the config store is independent of the document index: setConfig,
\* deleteConfig and deleteAllConfig never change the stored documents or a
\* read result, no other operation changes the config map, and getConfig(k)
\* returns the value of the most recent setConfig(k, v) not followed by
\* deleteConfig(k) or deleteAllConfig, and undefined otherwise.
ConfigIsIndependentOfDocuments == _config = <<>> /\ [][ConfigStep]_vars

\* the shortname is exactly 4 lowercase ASCII letters
FourLowercaseLetters(shortname) ==
    Len(shortname) = 4 /\ \A i \in 1..4 : shortname[i] \in 97..122

\* the shortname is a lowercase ASCII letter followed by 3 characters that
\* are lowercase ASCII letters or digits
LetterThenThreeLettersOrDigits(shortname) ==
    /\ Len(shortname) = 4
    /\ shortname[1] \in 97..122
    /\ \A i \in 2..4 : shortname[i] \in (97..122) \cup (48..57)

\* the keypair returned has the address '@' + shortname + '.' + more, and a
\* secret that does not start with '@'
KeypairIsWellFormed ==
    LET keypair == ret.value[1]
        shortname == ret.arg[1]
    IN  /\ Len(keypair.address) > Len(shortname) + 2
        /\ SubSeq(keypair.address, 1, Len(shortname) + 2) = <<64>> \o shortname \o <<46>>
        /\ keypair.secret # <<>> /\ keypair.secret[1] # 64

RECURSIVE Base32Number(_)
\* the number that base32 characters spell, 5 bits for each
Base32Number(chars) ==
    IF chars = <<>> THEN 0
    ELSE 32 * Base32Number(SubSeq(chars, 1, Len(chars) - 1))
         + Base32Value(chars[Len(chars)])

\* the text has the tag and only characters of the alphabet after it
TaggedBase32(str) ==
    str # <<>> /\ str[1] = 98 /\ \A i \in 2..Len(str) : IsBase32Char(str[i])

\* the text is empty, lacks the tag, holds an uppercase letter or another
\* character outside a-z2-7, or ends in padding bits that are not zero
Malformed(str) ==
    \/ str = <<>>
    \/ str[1] # 98
    \/ \E i \in 1..Len(str) : str[i] \in 65..90
    \/ \E i \in 2..Len(str) : str[i] \notin (97..122) \cup (50..55)
    \/ /\ TaggedBase32(str)
       /\ Base32Number(Tail(str)) % (2 ^ ((5 * (Len(str) - 1)) % 8)) # 0

\* C17: decode(encode(buf)) = buf and encode(buf) begins with the tag 'b' for
\* every buffer; encode(decode(s)) = s for every text decode accepts; decode
\* fails on the empty text, a missing or wrong tag, an uppercase letter, a
\* character outside a-z2-7 and padding bits that are not zero; decode('b')
\* is empty and decode('baa') is the single byte 0.
CodecRoundTripsAndIsCanonical ==
    /\ ret.op = "encodeBufferToBase32" =>
          /\ ret.threw = ""
          /\ ret.value[1] = 98
          /\ decodeBase32ToBuffer(ret.value) = Returned(ret.arg[1])
    /\ ret.op = "decodeBase32ToBuffer" =>
          /\ ret.threw = "" => encodeBufferToBase32(ret.value) = ret.arg[1]
          /\ Malformed(ret.arg[1]) => ret.threw # ""
          /\ ret.arg[1] = <<98>> => (ret.threw = "" /\ ret.value = <<>>)
          /\ ret.arg[1] = <<98, 97, 97>> => (ret.threw = "" /\ ret.value = <<0>>)

\* C17 witness: decode has returned two bytes, not both 0, for a text of the
\* tag and four characters.
DecodedTwoBytes ==
    /\ ret.op = "decodeBase32ToBuffer" /\ ret.threw = ""
    /\ Len(ret.arg[1]) = 5
    /\ Len(ret.value) = 2 /\ ret.value # <<0, 0>>

\* C18: verify(address, signature, input) returns a boolean for every input
\* and never an error; it returns true exactly when the signature is the one
\* sign makes over this input with the keypair of this address, and so
\* false for a malformed address, an undecodable signature, the signature
\* of another keypair and the signature of another input.
VerifyIsTotalAndExact ==
    ret.op = "verify" =>
        /\ ret.threw = ""
        /\ ret.value \in {<<TRUE>>, <<FALSE>>}
        /\ ret.value = <<TRUE>> <=>
              \E kp \in Keypairs :
                  /\ kp.address = ret.arg[1]
                  /\ signOf(kp, ret.arg[3]) = Returned(ret.arg[2])

\* C18 witness: verify has returned false for the address of a keypair and
\* the text 'otherSig', which is no base32 text.
VerifyRefusedGarbage ==
    /\ ret.op = "verify" /\ ret.value = <<FALSE>>
    /\ ret.arg[1] \in {kp.address : kp \in Keypairs}
    /\ ret.arg[2] = <<111, 116, 104, 101, 114, 83, 105, 103>>

\* every path entry of the document map has at least one author slot
EveryPathHasASlot == \A i \in 1..Len(_docs) : Len(_docs[i].slots) >= 1

\* C19: after any sequence of _upsertDocument, forgetDocuments and
\* discardExpiredDocuments every path key of the document map has at least
\* one author slot, so the 'latest' branch of documents() never takes the
\* first element of an empty slot list.
NoEmptyPathEntry == EveryPathHasASlot

\* C19 witness: forgetDocuments has returned for the documents of PathA, the
\* document map has no entry for PathA, and it holds the entry of PathB.
PathEntryGoneWithItsDocuments ==
    /\ ret.op = "forgetDocuments" /\ ret.threw = ""
    /\ CleanQuery.path = <<PathA>> /\ CleanQuery.history = "all"
    /\ ~HasPath(_docs, PathA)
    /\ Keys(_docs) = <<PathB>>

\* a call of a config operation on a closed storage throws
\* StorageIsClosedError and leaves the config map empty
ClosedConfigStep ==
    (ret = NoCall /\ _isClosed /\ ret'.op \in ConfigOperations) =>
        (ret'.threw = "StorageIsClosedError" /\ _config' = <<>>)

\* C20: every public operation checks the closed state first, the config
\* operations included: setConfig, getConfig, deleteConfig and
\* deleteAllConfig called after close fail like the document operations, so
\* the config map stays empty once the index is closed.
ConfigOperationsFailWhenClosed == [][ClosedConfigStep]_vars

\* documents(q) answers the same on the index before and after the step
SameAnswerAcrossStep(q) ==
    documentsOf(_docs', q, now) = documentsOf(_docs, q, now)

\* the document ranked first at every path is not expired
NoWinnerIsExpired ==
    \A doc \in Held(_docs) : RankedFirst(doc) => ~Expired(doc, now)

\* a call of discardExpiredDocuments on an open index changes the answer of
\* no query
PurgeStep ==
    CallsOnOpen("discardExpiredDocuments") =>
        \A q \in Queries : SameAnswerAcrossStep(q)

\* the same for the queries with history 'all', and for those with history
\* 'latest' when no path's first-ranked document is expired
PurgeUnlessAWinnerIsExpiredStep ==
    CallsOnOpen("discardExpiredDocuments") =>
        /\ now' = now
        /\ \A q \in Queries :
              (cleanUpQuery(q).history = "all" \/ NoWinnerIsExpired)
                  => SameAnswerAcrossStep(q)

ReadStep ==
    (ret = NoCall /\ ret'.op = "documents") =>
        /\ _docs' = _docs
        /\ _config' = _config
        /\ now' = now
        /\ ~_isClosed' =>
              Call("documents", ret'.arg, documentsOf(_docs', ret'.arg[1], now')) = ret'

\* C22: documents(query) is a pure read: for every query it leaves the
\* document map and the config map unchanged, so a second call with the same
\* query at the same now, with no mutation in between, returns the same
\* sequence.
DocumentsIsAPureRead == [][ReadStep]_vars

\* C22 witness: a 'latest' read with limit 1 has returned one document from an
\* index whose paths are still in an order other than ascending and whose
\* slots at PathA are still in an order other than latest first, with an
\* entry in the config map.
ReadLeftTheInsertionOrder ==
    /\ DocumentsReturned
    /\ CleanQuery.history = "latest" /\ CleanQuery.limit = <<1>>
    /\ Len(ret.value) = 1
    /\ Keys(_docs) = <<PathB, PathA>>
    /\ LET slots == SlotsOf(_docs, PathA)
       IN  Len(slots) = 2 /\ sortLatestFirst(slots[1], slots[2]) = 1
    /\ _config # <<>>

====
